---- MODULE Spec2Model ----
(***************************************************************************)
(* Model of the authorization core of hoiku-app5:                          *)
(*   - the request gateway (middleware.ts: route classification, session   *)
(*     validation with refresh, the per-request decision),                 *)
(*   - the Session Context (lib/auth.tsx) and the login form,              *)
(*   - the permissioned data-access layer (lib/database.ts).               *)
(* Paths are sequences of tokens ("/", a word, "."), so that startsWith    *)
(* and includes are computed as the code computes them on strings.         *)
(***************************************************************************)
EXTENDS Integers, Sequences, FiniteSets, TLC

\* ------------------------------------------------------------------ bounds
\* most rows the generation_history table takes
MaxHistory == 2
\* longest suffix appended to a base path
MaxSuffixLen == 1
\* highest refresh-token generation the Identity Service hands out
MaxGen == 2
\* the instant the first clock reading returns (seconds)
BaseNow == 1000

\* ------------------------------------------------------- route tables
protectedRoutes ==
  { <<"/", "dashboard">>, <<"/", "email">>, <<"/", "diary">>, <<"/", "records">> }

publicRoutes ==
  { <<"/">>, <<"/", "login">>, <<"/", "register">>, <<"/", "auth">> }

authRoutes ==
  { <<"/", "login">>, <<"/", "register">> }

\* String.prototype.startsWith / includes on token sequences
startsWith(s, prefix) ==
  /\ Len(s) >= Len(prefix)
  /\ SubSeq(s, 1, Len(prefix)) = prefix

includes(s, tok) ==
  \E i \in 1..Len(s) : s[i] = tok

isProtectedRoute(pathname) ==
  \E route \in protectedRoutes : startsWith(pathname, route)

isPublicRoute_rootByPrefix(pathname) ==
  \E route \in publicRoutes : startsWith(pathname, route)

isPublicRoute(pathname) ==
  \E route \in publicRoutes :
    IF route = <<"/">> THEN pathname = <<"/">> ELSE startsWith(pathname, route)

isAuthRoute_exact(pathname) ==
  pathname \in authRoutes

isAuthRoute(pathname) ==
  \E route \in authRoutes : startsWith(pathname, route)

\* middleware(): the static-file / API bypass test
isBypassed(pathname) ==
  \/ startsWith(pathname, <<"/", "_next", "/">>)
  \/ startsWith(pathname, <<"/", "api", "/">>)
  \/ includes(pathname, ".")
  \/ startsWith(pathname, <<"/", "favicon", ".", "ico">>)

\* ------------------------------------------------------- request paths
SuffixTokens == {"/", ".", "x"}

RECURSIVE SeqsUpTo(_, _)
SeqsUpTo(S, n) ==
  IF n = 0 THEN { <<>> }
  ELSE LET shorter == SeqsUpTo(S, n - 1)
       IN  shorter \cup { Append(q, t) : q \in shorter, t \in S }

BaseWords ==
  { "dashboard", "email", "diary", "records", "login", "register", "auth",
    "_next", "api" }

BasePaths == { <<"/">> } \cup { <<"/", w>> : w \in BaseWords }

Paths ==
  { b \o s : b \in BasePaths, s \in SeqsUpTo(SuffixTokens, MaxSuffixLen) }
    \cup { <<"/", "favicon", ".", "ico">> }

\* ------------------------------------------------------- sessions, cookies
CookieNames == {"sb-access-token", "sb-refresh-token"}

NoUser == "none"
GatewayUsers == {"u1"}

\* null / undefined session
NullSession == [gen |-> -1, user |-> NoUser, expires_at |-> 0]
\* a response cookie slot no Set-Cookie was issued for
Untouched == [gen |-> -2, user |-> NoUser, expires_at |-> 0]

\* getSession(): const expirationBuffer = 5 * 60
expirationBuffer == 5 * 60

\* expires_at of a stored session: 0 is a missing (falsy) expires_at
ExpiresChoices ==
  { 0, BaseNow - 1, BaseNow + expirationBuffer, BaseNow + 2 * expirationBuffer }

\* readings of Date.now() / 1000
NowChoices == { BaseNow, BaseNow + 1 }

FreshExpiry(now) == now + 2 * expirationBuffer

\* NextResponse.next(): pass-through, no cookie written
NextResponseNext ==
  [ kind |-> "next", url |-> <<>>, redirect |-> <<>>,
    cookies |-> [n \in CookieNames |-> Untouched] ]

\* response.cookies.set({name, value, ...options}) for every stored token
cookiesSet(response, session) ==
  [response EXCEPT !.cookies = [n \in CookieNames |-> session]]

\* response.cookies.delete(name)
cookiesDelete_noop(response, name) ==
  response

cookiesDelete_accessOnly(response, name) ==
  IF name = "sb-access-token"
  THEN [response EXCEPT !.cookies[name] = NullSession]
  ELSE response

cookiesDelete(response, name) ==
  [response EXCEPT !.cookies[name] = NullSession]

createRedirect_dropDestination(url, destination) ==
  [ kind |-> "redirect", url |-> url, redirect |-> <<>>,
    cookies |-> [n \in CookieNames |-> Untouched] ]

\* createRedirect(url, request, destination?): <<>> is an absent destination
createRedirect(url, destination) ==
  [ kind |-> "redirect", url |-> url,
    redirect |-> IF destination # <<>> /\ destination # <<"/">>
                 THEN destination ELSE <<>>,
    cookies |-> [n \in CookieNames |-> Untouched] ]

\* ------------------------------------------------------- getSession()
SessionResult(session, response, needsCleanup, outcome) ==
  [ await |-> FALSE, session |-> session, response |-> response,
    needsCleanup |-> needsCleanup, outcome |-> outcome ]

AwaitRefresh(session, response) ==
  [ await |-> TRUE, session |-> session, response |-> response,
    needsCleanup |-> FALSE, outcome |-> "Refreshing" ]

\* getSession() from the reply of supabase.auth.getSession() up to the
\* refresh call or a return
getSessionResolved_inclusiveWindow(reply, response, now) ==
  IF reply.error
  THEN SessionResult(NullSession, response, TRUE, "ServiceError")
  ELSE IF reply.session = NullSession
  THEN SessionResult(NullSession, response, FALSE, "NoSession")
  ELSE IF reply.session.expires_at # 0
          /\ reply.session.expires_at <= now + expirationBuffer
  THEN AwaitRefresh(reply.session, response)
  ELSE IF reply.session.user = NoUser
  THEN SessionResult(NullSession, response, TRUE, "CorruptSession")
  ELSE SessionResult(reply.session, response, FALSE, "Valid")

getSessionResolved(reply, response, now) ==
  IF reply.error
  THEN SessionResult(NullSession, response, TRUE, "ServiceError")
  ELSE IF reply.session = NullSession
  THEN SessionResult(NullSession, response, FALSE, "NoSession")
  ELSE IF reply.session.expires_at # 0
          /\ reply.session.expires_at < now + expirationBuffer
  THEN AwaitRefresh(reply.session, response)
  ELSE IF reply.session.user = NoUser
  THEN SessionResult(NullSession, response, TRUE, "CorruptSession")
  ELSE SessionResult(reply.session, response, FALSE, "Valid")

\* getSession() from the reply of supabase.auth.refreshSession() to its return
getSessionRefreshed(reply, response) ==
  IF reply.error \/ reply.session = NullSession
  THEN SessionResult(NullSession, response, TRUE, "RefreshFailed")
  ELSE SessionResult(reply.session, response, FALSE, "Valid")

\* getSession(): catch (error)
getSessionCatch ==
  SessionResult(NullSession, NextResponseNext, TRUE, "ServiceError")

\* ------------------------------------------------------- middleware()
\* the try block of middleware() after getSession() has returned
middlewareDecide(pathname, result) ==
  LET isAuthenticated == result.session # NullSession
  IN
  IF result.needsCleanup /\ ~isAuthenticated
  THEN IF isProtectedRoute(pathname)
       THEN cookiesDelete(
              cookiesDelete(createRedirect(<<"/", "login">>, pathname),
                            "sb-access-token"),
              "sb-refresh-token")
       ELSE cookiesDelete(cookiesDelete(NextResponseNext, "sb-access-token"),
                          "sb-refresh-token")
  ELSE IF isProtectedRoute(pathname)
  THEN IF ~isAuthenticated
       THEN createRedirect(<<"/", "login">>, pathname)
       ELSE result.response
  ELSE IF isAuthRoute(pathname) /\ isAuthenticated
  THEN createRedirect(<<"/", "dashboard">>, <<>>)
  ELSE IF isPublicRoute(pathname)
  THEN NextResponseNext
  ELSE NextResponseNext

\* middleware(): catch (error)
middlewareCatch(pathname) ==
  IF isProtectedRoute(pathname)
  THEN createRedirect(<<"/", "login">>, pathname)
  ELSE NextResponseNext

\* ------------------------------------------------------- gateway state
VARIABLES
  jar,      \* the caller's cookie store: cookie name -> stored session
  svcGen,   \* Identity Service: the refresh-token generation it accepts
  req,      \* in-flight gateway requests: id -> request record
  localStore \* window.localStorage: token name -> stored session

gatewayVars == <<jar, svcGen, req, localStore>>

VARIABLES
  user,        \* Session Context: user (AuthUser or NullAuthUser)
  session,     \* Session Context: session (AuthSession or NullAuthSession)
  loading,     \* Session Context: loading
  initPc,      \* initializeAuth: "pending" until its getSession() resolved
  signInPc,    \* signIn: [pc, redirectTo] ("awaiting" while the call is out)
  signUpPc,    \* signUp: "idle" / "awaiting"
  signOutPc,   \* signOut: "idle" / "awaiting"
  lastResult,  \* the AuthResponse most recently returned by an operation
  docCookies,  \* document.cookie: the token cookies present
  svcSession   \* the session the Supabase client holds

ctxVars ==
  <<user, session, loading, initPc, signInPc, signUpPc, signOutPc,
    lastResult, docCookies, svcSession>>

VARIABLES
  location,    \* browser location: [path, redirect]
  nav,         \* target of the login form's router.push, <<>> when none
  intended     \* the Protected path whose request led to the login page

navVars == <<location, nav, intended>>

VARIABLES
  usersTable,  \* ids that have a row in the users table
  lastProfile  \* outcome of the most recent getUserProfile call

VARIABLES
  profiles,    \* users table: id -> the row stored for it (when it has one)
  history,     \* generation_history table: the rows inserted, in order
  lastOp       \* the most recent data-layer call: its input and outcome

storeVars == <<profiles, history, lastOp>>

dataVars == <<usersTable, lastProfile, storeVars>>

otherThanGateway == <<ctxVars, navVars, dataVars>>

IdleRequest ==
  [ pc |-> "idle", pathname |-> <<>>,
    cookies |-> [n \in CookieNames |-> NullSession],
    now |-> 0, response |-> NextResponseNext, outcome |-> "None",
    session |-> NullSession, needsCleanup |-> FALSE, refreshed |-> FALSE,
    final |-> NextResponseNext ]

EmptyJar == [n \in CookieNames |-> NullSession]

GatewayIdle ==
  /\ jar = EmptyJar
  /\ localStore = EmptyJar
  /\ svcGen = 0
  /\ req = [r \in {1} |-> IdleRequest]

\* middleware() returns `final`; what getSession() returned is kept with it,
\* and the reading of the clock when getSession() took one
Finish(r, result, final, now) ==
  req' = [req EXCEPT ![r].pc = "done",
                     ![r].now = now,
                     ![r].response = result.response,
                     ![r].outcome = result.outcome,
                     ![r].session = result.session,
                     ![r].needsCleanup = result.needsCleanup,
                     ![r].final = final]

\* middleware() entry: the bypass test, then the call of getSession(), which
\* builds `response` and the server client over the request's cookies
StartRequest(r, pathname) ==
  /\ req[r].pc = "idle"
  /\ IF isBypassed(pathname)
     THEN req' = [req EXCEPT ![r] = [IdleRequest EXCEPT
                    !.pc = "done", !.pathname = pathname, !.cookies = jar,
                    !.outcome = "Bypass", !.final = NextResponseNext]]
     ELSE req' = [req EXCEPT ![r] = [IdleRequest EXCEPT
                    !.pc = "getSession", !.pathname = pathname,
                    !.cookies = jar, !.response = NextResponseNext]]
  /\ UNCHANGED <<jar, svcGen, localStore>>
  /\ UNCHANGED otherThanGateway

\* replies supabase.auth.getSession() can give over the request's cookies
GetSessionReplies(cookies) ==
  { [error |-> TRUE, session |-> NullSession],
    [error |-> FALSE, session |-> cookies["sb-access-token"]] }

\* supabase.auth.getSession() resolves; getSession() runs to its return or
\* to the refresh call; on a return middleware() decides
GetSessionReturns(r, reply, now) ==
  /\ req[r].pc = "getSession"
  /\ LET result == getSessionResolved(reply, req[r].response, now)
     IN  IF result.await
         THEN req' = [req EXCEPT ![r].pc = "refresh", ![r].now = now,
                                 ![r].session = result.session]
         ELSE Finish(r, result, middlewareDecide(req[r].pathname, result),
                     IF reply.error \/ reply.session = NullSession
                     THEN req[r].now ELSE now)
  /\ UNCHANGED <<jar, svcGen, localStore>>
  /\ UNCHANGED otherThanGateway

\* supabase.auth.refreshSession() succeeds: the service rotates the refresh
\* token and the client writes the new session through cookies.set
RefreshSucceeds(r, refreshedUser) ==
  /\ req[r].pc = "refresh"
  /\ req[r].cookies["sb-refresh-token"].gen = svcGen
  /\ svcGen < MaxGen
  /\ LET fresh == [gen |-> svcGen + 1, user |-> refreshedUser,
                   expires_at |-> FreshExpiry(req[r].now)]
         result == getSessionRefreshed([error |-> FALSE, session |-> fresh],
                                       cookiesSet(req[r].response, fresh))
     IN  /\ req' = [req EXCEPT ![r].pc = "done",
                      ![r].response = result.response,
                      ![r].outcome = result.outcome,
                      ![r].session = result.session,
                      ![r].refreshed = TRUE,
                      ![r].final = middlewareDecide(req[r].pathname, result)]
  /\ svcGen' = svcGen + 1
  /\ UNCHANGED <<jar, localStore>>
  /\ UNCHANGED otherThanGateway

\* supabase.auth.refreshSession() fails: an error, or no session in the reply
RefreshFails(r, reply) ==
  /\ req[r].pc = "refresh"
  /\ reply \in { [error |-> TRUE, session |-> NullSession],
                 [error |-> FALSE, session |-> NullSession] }
  /\ LET result == getSessionRefreshed(reply, req[r].response)
     IN  Finish(r, result, middlewareDecide(req[r].pathname, result),
                req[r].now)
  /\ UNCHANGED <<jar, svcGen, localStore>>
  /\ UNCHANGED otherThanGateway

\* an exception inside getSession()'s try block
GetSessionThrows(r) ==
  /\ req[r].pc \in {"getSession", "refresh"}
  /\ Finish(r, getSessionCatch,
            middlewareDecide(req[r].pathname, getSessionCatch), req[r].now)
  /\ UNCHANGED <<jar, svcGen, localStore>>
  /\ UNCHANGED otherThanGateway

\* an exception inside middleware()'s try block, outside getSession()
MiddlewareThrows(r) ==
  /\ req[r].pc \in {"getSession", "refresh"}
  /\ req' = [req EXCEPT ![r].pc = "done", ![r].outcome = "Exception",
                        ![r].session = NullSession,
                        ![r].final = middlewareCatch(req[r].pathname)]
  /\ UNCHANGED <<jar, svcGen, localStore>>
  /\ UNCHANGED otherThanGateway

\* the browser receives the response and applies its cookie directives
Deliver(r) ==
  /\ req[r].pc = "done"
  /\ jar' = [n \in CookieNames |->
               IF req[r].final.cookies[n] = Untouched
               THEN jar[n] ELSE req[r].final.cookies[n]]
  /\ req' = [req EXCEPT ![r] = IdleRequest]
  /\ UNCHANGED <<svcGen, localStore>>
  /\ UNCHANGED otherThanGateway

\* the caller signs in: the Token Store receives a session of the
\* generation the service currently accepts; customStorage.setItem writes
\* it to localStorage and to the cookie
BrowserSignIn(signedInUser, expires_at) ==
  /\ jar' = [n \in CookieNames |->
               [gen |-> svcGen, user |-> signedInUser, expires_at |-> expires_at]]
  /\ localStore' = jar'
  /\ UNCHANGED <<svcGen, req>>
  /\ UNCHANGED otherThanGateway

\* the stored session loses its user record (a referentially broken token)
StoredSessionCorrupted ==
  /\ jar["sb-access-token"] # NullSession
  /\ jar["sb-access-token"].user # NoUser
  /\ jar' = [n \in CookieNames |-> [jar[n] EXCEPT !.user = NoUser]]
  /\ localStore' = [n \in CookieNames |->
                      IF localStore[n] = NullSession THEN NullSession
                      ELSE [localStore[n] EXCEPT !.user = NoUser]]
  /\ UNCHANGED <<svcGen, req>>
  /\ UNCHANGED otherThanGateway

\* customStorage.removeItem for both tokens: the client clears the session
BrowserSignOut ==
  /\ jar # EmptyJar \/ localStore # EmptyJar
  /\ jar' = EmptyJar
  /\ localStore' = EmptyJar
  /\ UNCHANGED <<svcGen, req>>
  /\ UNCHANGED otherThanGateway

\* customStorage.getItem(key): localStorage first, then the cookie
getItem(name) ==
  IF localStore[name] # NullSession THEN localStore[name] ELSE jar[name]

GatewayNext ==
  \/ \E r \in DOMAIN req, p \in Paths : StartRequest(r, p)
  \/ \E r \in DOMAIN req, now \in NowChoices :
       \E reply \in GetSessionReplies(req[r].cookies) :
         GetSessionReturns(r, reply, now)
  \/ \E r \in DOMAIN req, u \in GatewayUsers \cup {NoUser} :
       RefreshSucceeds(r, u)
  \/ \E r \in DOMAIN req :
       \E reply \in { [error |-> e, session |-> NullSession] : e \in BOOLEAN } :
         RefreshFails(r, reply)
  \/ \E r \in DOMAIN req : GetSessionThrows(r)
  \/ \E r \in DOMAIN req : MiddlewareThrows(r)
  \/ \E r \in DOMAIN req : Deliver(r)
  \/ \E u \in GatewayUsers, e \in ExpiresChoices : BrowserSignIn(u, e)
  \/ StoredSessionCorrupted
  \/ BrowserSignOut


\* ------------------------------------------------------- Session Context
\* accounts known to the Identity Service
Accounts == {"u1", "u2"}

\* a Supabase session is [user, expires_at]; expires_at = 0 is a missing one
NullSupabaseSession == [user |-> NoUser, expires_at |-> 0]

SupabaseSessions ==
  { [user |-> a, expires_at |-> e] :
      a \in Accounts, e \in {0, BaseNow + 2 * expirationBuffer} }

NullAuthUser == [id |-> NoUser]
NullAuthSession == [user |-> NullAuthUser, expires_at |-> 0]

\* convertToAuthUser(user)
convertToAuthUser(supabaseUser) ==
  [id |-> supabaseUser]

\* convertToAuthSession(session); nowMs is the reading of Date.now()
convertToAuthSession(supabaseSession, nowMs) ==
  [ user |-> convertToAuthUser(supabaseSession.user),
    expires_at |-> IF supabaseSession.expires_at # 0
                   THEN supabaseSession.expires_at * 1000
                   ELSE nowMs + 3600000 ]

\* provider wordings handleAuthError looks for; a message is modelled by the
\* set of these wordings it contains
Phrases ==
  { "Invalid login credentials", "User already registered",
    "Password should be", "Email not confirmed" }

\* error.status: NoStatus is an error without a (defined) status
NoStatus == -1
StatusChoices == {NoStatus, 400}

\* messages: no known wording, one of them, or all of them
MessageChoices == { {} } \cup { {ph} : ph \in Phrases } \cup { Phrases }

AuthErrors ==
  { [phrases |-> ph, status |-> st] : ph \in MessageChoices, st \in StatusChoices }

\* an AuthResponse: data is the id of the user it carries; fresh marks the
\* state the operation returned in; mismatch tells whether the password and
\* its confirmation differed in the call, contacted whether the operation
\* called the Identity Service before it returned
Failure(op, code, field) ==
  [ op |-> op, success |-> FALSE, code |-> code, field |-> field,
    data |-> NoUser, fresh |-> TRUE, mismatch |-> FALSE, contacted |-> TRUE ]

Success(op, data) ==
  [ op |-> op, success |-> TRUE, code |-> "", field |-> "",
    data |-> data, fresh |-> TRUE, mismatch |-> FALSE, contacted |-> TRUE ]

\* the early return of signUp / changePassword, before any call
LocalFailure(op, code, field) ==
  [ Failure(op, code, field) EXCEPT !.contacted = FALSE ]

\* credentials.password !== credentials.confirm_password
confirmationDiffers_never(password, confirm_password) ==
  FALSE

confirmationDiffers(password, confirm_password) ==
  password # confirm_password

\* the credentials of the call, kept with its AuthResponse
WithInput(result, password, confirm_password) ==
  [ result EXCEPT !.mismatch = (password # confirm_password) ]

\* handleAuthError(error)
handleAuthError(op, error) ==
  LET code0 == IF error.status # NoStatus
               THEN ToString(error.status) ELSE "unknown_error"
      code  == IF "Invalid login credentials" \in error.phrases
               THEN "invalid_credentials"
               ELSE IF "User already registered" \in error.phrases
               THEN "user_exists"
               ELSE IF "Password should be" \in error.phrases
               THEN "weak_password"
               ELSE IF "Email not confirmed" \in error.phrases
               THEN "email_not_confirmed"
               ELSE code0
  IN  Failure(op, code, "")

NoResult ==
  [ op |-> "none", success |-> TRUE, code |-> "", field |-> "",
    data |-> NoUser, fresh |-> FALSE, mismatch |-> FALSE, contacted |-> FALSE ]

\* a getUserProfile outcome: what it returned or raised, for which id, the
\* caller getCurrentUser() found, and whether it directly followed a sign-in
NoProfile ==
  [ kind |-> "none", id |-> NoUser, code |-> "", cause |-> FALSE,
    requested |-> NoUser, caller |-> NoUser,
    afterSignIn |-> FALSE, signedIn |-> NoUser ]

CtxInit ==
  /\ user = NullAuthUser
  /\ session = NullAuthSession
  /\ loading = TRUE
  /\ initPc = "pending"
  /\ signInPc = [pc |-> "idle", redirectTo |-> <<>>]
  /\ signUpPc = "idle"
  /\ signOutPc = "idle"
  /\ lastResult = NoResult
  /\ svcSession \in SupabaseSessions \cup {NullSupabaseSession}
  /\ docCookies = IF svcSession = NullSupabaseSession THEN {} ELSE CookieNames

NavInit(path) ==
  /\ location = [path |-> path, redirect |-> <<>>]
  /\ nav = <<>>
  /\ intended = <<>>

\* ------------------------------------------------------- stored data
\* validClasses of updateUserProfile
validClasses == {"koala", "bear", "giraffe"}

\* a field that is undefined / null
Absent == "absent"

\* JavaScript truthiness of an optional string
Truthy(x) == x \notin {Absent, ""}

\* a row of the users table
UserRow(id, assigned_class) ==
  [ id |-> id, email |-> "mail", name |-> "name",
    assigned_class |-> assigned_class,
    created_at |-> "t0", updated_at |-> "t0" ]

\* the children table
Children ==
  { [name |-> "c1", class_id |-> "koala"], [name |-> "c2", class_id |-> "bear"] }

\* what a data-layer call ends in: a returned value (kind "ok") or a raised
\* error of class kind with its code and whether it carries the original
\* error (details); stage is the step that ended the call, steps the steps
\* taken in order, queried the filter of the children query (NotQueried:
\* none was issued), wrote whether a write was sent to the store
NotQueried == "not queried"
NoFilter == "no filter"

Raise(kind, stage, code, cause, steps) ==
  [ kind |-> kind, stage |-> stage, code |-> code, cause |-> cause,
    steps |-> steps, value |-> {}, queried |-> NotQueried, wrote |-> FALSE ]

Resolve(value, steps) ==
  [ kind |-> "ok", stage |-> "done", code |-> "", cause |-> FALSE,
    steps |-> steps, value |-> value, queried |-> NotQueried, wrote |-> FALSE ]

NoOutcome == Raise("none", "none", "", FALSE, <<>>)

\* a call that passes no object
NoData == [given |-> FALSE]

NoOp ==
  [ op |-> "none", caller |-> NoUser, target |-> Absent, data |-> NoData,
    out |-> NoOutcome ]

StoreIdle ==
  /\ profiles = [a \in Accounts |-> UserRow(a, Absent)]
  /\ history = <<>>
  /\ lastOp = NoOp

DataInit ==
  /\ usersTable \in SUBSET Accounts
  /\ lastProfile = NoProfile
  /\ StoreIdle

\* the state the onAuthStateChange handler leaves
onAuthStateChange_keepsState(currentSession, nowMs) ==
  [user |-> user, session |-> session, loading |-> FALSE]

onAuthStateChange_ignoresSignOut(currentSession, nowMs) ==
  IF currentSession # NullSupabaseSession
  THEN LET authSession == convertToAuthSession(currentSession, nowMs)
       IN  [user |-> authSession.user, session |-> authSession, loading |-> FALSE]
  ELSE [user |-> user, session |-> session, loading |-> FALSE]

onAuthStateChange(currentSession, nowMs) ==
  IF currentSession # NullSupabaseSession
  THEN LET authSession == convertToAuthSession(currentSession, nowMs)
       IN  [user |-> authSession.user, session |-> authSession, loading |-> FALSE]
  ELSE [user |-> NullAuthUser, session |-> NullAuthSession, loading |-> FALSE]

\* ------------------------------------------------------- getUserProfile
ProfileOutcome(kind, id, code, cause) ==
  [kind |-> kind, id |-> id, code |-> code, cause |-> cause]

\* replies of supabase.from('users').select('*').eq('id', userId).single()
UsersQueryReplies(userId) ==
  { IF userId \in usersTable
    THEN [kind |-> "row", id |-> userId, code |-> ""]
    ELSE [kind |-> "error", id |-> NoUser, code |-> "PGRST116"],
    [kind |-> "error", id |-> NoUser, code |-> "XX000"],
    [kind |-> "throw", id |-> NoUser, code |-> ""] }

\* getUserProfile(userId): "" is a missing userId, currentUser what
\* getCurrentUser() resolved to, queryReply the reply of the users query
getUserProfile(userId, currentUser, queryReply) ==
  IF userId = ""
  THEN ProfileOutcome("DatabaseError", NoUser, "", FALSE)
  ELSE IF currentUser = NoUser
  THEN ProfileOutcome("AuthenticationError", NoUser, "", FALSE)
  ELSE IF queryReply.kind = "throw"
  THEN ProfileOutcome("DatabaseError", NoUser, "", FALSE)
  ELSE IF queryReply.kind = "error"
  THEN IF queryReply.code = "PGRST116"
       THEN ProfileOutcome("null", NoUser, "", FALSE)
       ELSE ProfileOutcome("DatabaseError", NoUser, queryReply.code, TRUE)
  ELSE ProfileOutcome("profile", queryReply.id, "", FALSE)

\* ------------------------------------------------------- context actions
\* the next step starts: the previous AuthResponse is no longer the latest
Stale == NoResult

SetContext(state) ==
  /\ user' = state.user
  /\ session' = state.session
  /\ loading' = state.loading

\* the client stores a session: customStorage.setItem mirrors the tokens
\* into the cookies
ClientStores(supabaseSession) ==
  /\ svcSession' = supabaseSession
  /\ docCookies' = CookieNames

\* initializeAuth(): supabase.auth.getSession() resolves (or throws)
InitializeAuthResolves(throws, nowMs) ==
  /\ initPc = "pending"
  /\ initPc' = "done"
  /\ IF ~throws /\ svcSession # NullSupabaseSession
     THEN LET authSession == convertToAuthSession(svcSession, nowMs)
          IN  /\ session' = authSession
              /\ user' = authSession.user
     ELSE UNCHANGED <<user, session>>
  /\ loading' = FALSE
  /\ lastResult' = Stale
  /\ UNCHANGED <<signInPc, signUpPc, signOutPc, docCookies, svcSession>>
  /\ UNCHANGED <<gatewayVars, navVars, dataVars>>

\* a session-change notification pushed by the Identity Service
AuthStateChange(currentSession, nowMs) ==
  /\ SetContext(onAuthStateChange(currentSession, nowMs))
  /\ svcSession' = currentSession
  /\ docCookies' = IF currentSession = NullSupabaseSession THEN {} ELSE CookieNames
  /\ lastResult' = Stale
  /\ UNCHANGED <<initPc, signInPc, signUpPc, signOutPc>>
  /\ UNCHANGED <<gatewayVars, navVars, dataVars>>

\* LoginForm.onSubmit up to `await signIn(loginData)`; signIn() up to
\* `await supabase.auth.signInWithPassword`
LoginFormSubmit ==
  /\ signInPc.pc = "idle"
  /\ location.path = <<"/", "login">>
  /\ signInPc' = [pc |-> "awaiting", redirectTo |-> location.redirect]
  /\ loading' = TRUE
  /\ nav' = <<>>
  /\ lastResult' = Stale
  /\ UNCHANGED <<user, session, initPc, signUpPc, signOutPc, docCookies, svcSession>>
  /\ UNCHANGED <<gatewayVars, location, intended, dataVars>>

\* replies of signInWithPassword / signUp / signOut / updateUser / reset
\* a returned error is an AuthError; a thrown one is a plain Error
ErrorReplies ==
  { [kind |-> "error", error |-> e, session |-> NullSupabaseSession, user |-> NoUser] :
      e \in AuthErrors }
  \cup
  { [kind |-> "throw", error |-> [phrases |-> ph, status |-> NoStatus],
     session |-> NullSupabaseSession, user |-> NoUser] : ph \in MessageChoices }

NoError == [phrases |-> {}, status |-> NoStatus]

OkReply(supabaseSession, supabaseUser) ==
  [kind |-> "ok", error |-> NoError, session |-> supabaseSession, user |-> supabaseUser]

SignInReplies ==
  ErrorReplies \cup { OkReply(NullSupabaseSession, NoUser) }
    \cup { OkReply(s, s.user) : s \in SupabaseSessions }

\* LoginForm.onSubmit: the navigation after `await signIn`
loginDestination_alwaysDashboard(redirectTo) ==
  <<"/", "dashboard">>

loginDestination(redirectTo) ==
  IF redirectTo # <<>> THEN redirectTo ELSE <<"/", "dashboard">>

\* signInWithPassword resolves: on a session the client stores it and runs
\* the onAuthStateChange handler before signIn() resumes; signIn() returns;
\* LoginForm.onSubmit resumes with the result
SignInReturns(reply, nowMs) ==
  /\ signInPc.pc = "awaiting"
  /\ signInPc' = [signInPc EXCEPT !.pc = "idle"]
  /\ IF reply.kind = "ok" /\ reply.session # NullSupabaseSession
     THEN /\ ClientStores(reply.session)
          /\ SetContext(onAuthStateChange(reply.session, nowMs))
          /\ lastResult' =
               Success("signIn", convertToAuthSession(reply.session, nowMs).user.id)
          /\ nav' = loginDestination(signInPc.redirectTo)
     ELSE /\ lastResult' = IF reply.kind = "ok"
                           THEN Failure("signIn", "no_session", "")
                           ELSE handleAuthError("signIn", reply.error)
          /\ loading' = FALSE
          /\ UNCHANGED <<user, session, svcSession, docCookies, nav>>
  /\ UNCHANGED <<initPc, signUpPc, signOutPc, location, intended>>
  /\ UNCHANGED <<gatewayVars, dataVars>>

Passwords == {"pw1", "pw2"}

\* signUp() up to `await supabase.auth.signUp`, or to its return on a
\* confirmation mismatch
SignUpSubmit(password, confirm_password) ==
  /\ signUpPc = "idle"
  /\ IF confirmationDiffers(password, confirm_password)
     THEN /\ lastResult' =
               WithInput(LocalFailure("signUp", "password_mismatch",
                                      "confirm_password"),
                         password, confirm_password)
          /\ loading' = FALSE
          /\ UNCHANGED signUpPc
     ELSE /\ lastResult' = Stale
          /\ loading' = TRUE
          /\ signUpPc' = "awaiting"
  /\ UNCHANGED <<user, session, initPc, signInPc, signOutPc, docCookies, svcSession>>
  /\ UNCHANGED <<gatewayVars, navVars, dataVars>>

SignUpReplies ==
  ErrorReplies \cup { OkReply(NullSupabaseSession, NoUser) }
    \cup { OkReply(NullSupabaseSession, a) : a \in Accounts }
    \cup { OkReply(s, s.user) : s \in SupabaseSessions }

\* supabase.auth.signUp resolves; signUp() returns
SignUpReturns(reply, nowMs) ==
  /\ signUpPc = "awaiting"
  /\ signUpPc' = "idle"
  /\ IF reply.kind = "ok" /\ reply.session # NullSupabaseSession
     THEN /\ ClientStores(reply.session)
          /\ SetContext(onAuthStateChange(reply.session, nowMs))
     ELSE /\ loading' = FALSE
          /\ UNCHANGED <<user, session, svcSession, docCookies>>
  /\ lastResult' =
       IF reply.kind # "ok" THEN handleAuthError("signUp", reply.error)
       ELSE IF reply.user = NoUser THEN Failure("signUp", "no_user", "")
       ELSE Success("signUp", convertToAuthUser(reply.user).id)
  /\ UNCHANGED <<initPc, signInPc, signOutPc>>
  /\ UNCHANGED <<gatewayVars, navVars, dataVars>>

\* signOut() up to `await supabase.auth.signOut()`
SignOutStart ==
  /\ signOutPc = "idle"
  /\ signOutPc' = "awaiting"
  /\ loading' = TRUE
  /\ lastResult' = Stale
  /\ UNCHANGED <<user, session, initPc, signInPc, signUpPc, docCookies, svcSession>>
  /\ UNCHANGED <<gatewayVars, navVars, dataVars>>

SignOutReplies == ErrorReplies \cup { OkReply(NullSupabaseSession, NoUser) }

\* supabase.auth.signOut() resolves; signOut() returns
SignOutReturns(reply) ==
  /\ signOutPc = "awaiting"
  /\ signOutPc' = "idle"
  /\ IF reply.kind = "ok"
     THEN /\ user' = NullAuthUser
          /\ session' = NullAuthSession
          /\ svcSession' = NullSupabaseSession
          /\ docCookies' = docCookies \ {"sb-access-token", "sb-refresh-token"}
          /\ lastResult' = Success("signOut", NoUser)
     ELSE /\ lastResult' = handleAuthError("signOut", reply.error)
          /\ UNCHANGED <<user, session, svcSession, docCookies>>
  /\ loading' = FALSE
  /\ UNCHANGED <<initPc, signInPc, signUpPc>>
  /\ UNCHANGED <<gatewayVars, navVars, dataVars>>

\* resetPassword(data)
ResetPassword(reply) ==
  /\ lastResult' = IF reply.kind = "ok" THEN Success("resetPassword", NoUser)
                   ELSE handleAuthError("resetPassword", reply.error)
  /\ UNCHANGED <<user, session, loading, initPc, signInPc, signUpPc, signOutPc,
                 docCookies, svcSession>>
  /\ UNCHANGED <<gatewayVars, navVars, dataVars>>

\* changePassword(data)
ChangePassword(new_password, confirm_password, reply) ==
  /\ lastResult' =
       WithInput(
         IF confirmationDiffers(new_password, confirm_password)
         THEN LocalFailure("changePassword", "password_mismatch",
                           "confirm_password")
         ELSE IF reply.kind = "ok" THEN Success("changePassword", NoUser)
         ELSE handleAuthError("changePassword", reply.error),
         new_password, confirm_password)
  /\ UNCHANGED <<user, session, loading, initPc, signInPc, signUpPc, signOutPc,
                 docCookies, svcSession>>
  /\ UNCHANGED <<gatewayVars, navVars, dataVars>>

\* replies of supabase.auth.refreshSession() to the Session Context
RefreshReplies ==
  { [kind |-> k, error |-> [phrases |-> {}, status |-> NoStatus],
     session |-> NullSupabaseSession, user |-> NoUser] : k \in {"error", "throw"} }
    \cup { OkReply(NullSupabaseSession, NoUser) }
    \cup { OkReply(s, s.user) : s \in SupabaseSessions }

\* the state refreshSession() sets from the reply's session
refreshSessionSets_userOnly(supabaseSession, nowMs) ==
  [ user |-> convertToAuthSession(supabaseSession, nowMs).user,
    session |-> session, loading |-> FALSE ]

refreshSessionSets(supabaseSession, nowMs) ==
  LET authSession == convertToAuthSession(supabaseSession, nowMs)
  IN  [ user |-> authSession.user, session |-> authSession, loading |-> FALSE ]

\* refreshSession(): supabase.auth.refreshSession() resolves; on a session
\* the client stores it and runs the onAuthStateChange handler, which sets
\* loading, before refreshSession() resumes and sets session and user
RefreshSession(reply, nowMs) ==
  /\ IF reply.kind = "ok" /\ reply.session # NullSupabaseSession
     THEN /\ ClientStores(reply.session)
          /\ SetContext(refreshSessionSets(reply.session, nowMs))
     ELSE UNCHANGED <<user, session, loading, svcSession, docCookies>>
  /\ lastResult' = Stale
  /\ UNCHANGED <<initPc, signInPc, signUpPc, signOutPc>>
  /\ UNCHANGED <<gatewayVars, navVars, dataVars>>

\* clearAuth()
ClearAuth ==
  /\ user' = NullAuthUser
  /\ session' = NullAuthSession
  /\ loading' = FALSE
  /\ lastResult' = Stale
  /\ UNCHANGED <<initPc, signInPc, signUpPc, signOutPc, docCookies, svcSession>>
  /\ UNCHANGED <<gatewayVars, navVars, dataVars>>

\* getUserProfile(userId) called from the current state; getCurrentUser()
\* resolves to the client's user, or to null when the lookup fails
GetUserProfile(userId, lookupFails, queryReply) ==
  /\ LET currentUser == IF lookupFails THEN NoUser ELSE svcSession.user
         out == getUserProfile(userId, currentUser, queryReply)
     IN  lastProfile' =
           [ kind |-> out.kind, id |-> out.id, code |-> out.code,
             cause |-> out.cause, requested |-> userId, caller |-> currentUser,
             afterSignIn |-> /\ lastResult.fresh
                             /\ lastResult.op = "signIn"
                             /\ lastResult.success
                             /\ userId = lastResult.data,
             signedIn |-> lastResult.data ]
  /\ lastResult' = Stale
  /\ UNCHANGED <<user, session, loading, initPc, signInPc, signUpPc, signOutPc,
                 docCookies, svcSession>>
  /\ UNCHANGED <<gatewayVars, navVars, usersTable, storeVars>>

\* ------------------------------------------------------- getChildren
\* rows the children query yields under a filter
childrenWhere(filter) ==
  { c \in Children : filter = NoFilter \/ c.class_id = filter }

\* replies of a table query: rows, a returned error, a thrown failure
StoreReplies ==
  { [kind |-> "ok", code |-> ""], [kind |-> "error", code |-> "XX000"],
    [kind |-> "throw", code |-> ""] }

\* the steps of the getUserProfile call made by getChildren
ProfileSteps(inner) ==
  IF inner.kind = "AuthenticationError" THEN <<"validate", "identity">>
  ELSE <<"validate", "identity", "storage">>

getChildren_noPermissionCheck(classId, currentUser, innerUser, usersReply, childrenReply) ==
  LET inner == getUserProfile(currentUser, innerUser, usersReply)
      steps == <<"identity">> \o ProfileSteps(inner) \o <<"authorize", "storage">>
      filter == IF Truthy(classId) THEN classId
                ELSE IF Truthy(profiles[currentUser].assigned_class)
                THEN profiles[currentUser].assigned_class ELSE NoFilter
  IN  IF currentUser = NoUser \/ inner.kind # "profile"
      THEN Raise("AuthenticationError", "authentication", "", FALSE, <<"identity">>)
      ELSE [ Resolve(childrenWhere(filter), steps) EXCEPT !.queried = filter ]

\* getChildren(classId): currentUser is what getCurrentUser() resolved to,
\* innerUser what it resolved to inside getUserProfile, usersReply and
\* childrenReply the replies of the two queries
getChildren(classId, currentUser, innerUser, usersReply, childrenReply) ==
  IF currentUser = NoUser
  THEN Raise("AuthenticationError", "authentication", "", FALSE, <<"identity">>)
  ELSE
  LET inner == getUserProfile(currentUser, innerUser, usersReply)
      s1 == <<"identity">> \o ProfileSteps(inner)
  IN  IF inner.kind \in {"DatabaseError", "AuthenticationError"}
      THEN Raise(inner.kind,
                 IF inner.kind = "AuthenticationError"
                 THEN "authentication" ELSE "storage",
                 inner.code, inner.cause, s1)
      ELSE IF inner.kind = "null"
      THEN Raise("AuthenticationError", "authentication", "", FALSE, s1)
      ELSE
      LET userProfile == profiles[inner.id]
          s2 == s1 \o <<"authorize">>
          s3 == s2 \o <<"storage">>
      IN  IF /\ Truthy(classId)
             /\ Truthy(userProfile.assigned_class)
             /\ userProfile.assigned_class # classId
          THEN Raise("PermissionError", "authorization", "", FALSE, s2)
          ELSE
          LET filter == IF Truthy(classId) THEN classId
                        ELSE IF Truthy(userProfile.assigned_class)
                        THEN userProfile.assigned_class
                        ELSE NoFilter
          IN  IF childrenReply.kind = "error"
              THEN [ Raise("DatabaseError", "storage", childrenReply.code, TRUE, s3)
                       EXCEPT !.queried = filter ]
              ELSE IF childrenReply.kind = "throw"
              THEN [ Raise("DatabaseError", "storage", "", FALSE, s3)
                       EXCEPT !.queried = filter ]
              ELSE [ Resolve(childrenWhere(filter), s3) EXCEPT !.queried = filter ]

\* what the caller of a data-layer call leaves alone
DataCallFrame ==
  /\ lastResult' = Stale
  /\ UNCHANGED <<user, session, loading, initPc, signInPc, signUpPc, signOutPc,
                 docCookies, svcSession>>
  /\ UNCHANGED <<gatewayVars, navVars, usersTable, lastProfile>>

\* getChildren(classId) called from the current state
GetChildren(classId, lookupFails, innerFails, usersReply, childrenReply) ==
  /\ LET currentUser == IF lookupFails THEN NoUser ELSE svcSession.user
         innerUser == IF innerFails THEN NoUser ELSE currentUser
     IN  lastOp' =
           [ op |-> "getChildren", caller |-> currentUser, target |-> classId,
             data |-> NoData,
             out |-> getChildren(classId, currentUser, innerUser,
                                 usersReply, childrenReply) ]
  /\ UNCHANGED <<profiles, history>>
  /\ DataCallFrame

\* getClasses()
getClasses(currentUser, reply) ==
  IF currentUser = NoUser
  THEN Raise("AuthenticationError", "authentication", "", FALSE, <<"identity">>)
  ELSE IF reply.kind = "error"
  THEN Raise("DatabaseError", "storage", reply.code, TRUE, <<"identity", "storage">>)
  ELSE IF reply.kind = "throw"
  THEN Raise("DatabaseError", "storage", "", FALSE, <<"identity", "storage">>)
  ELSE Resolve(validClasses, <<"identity", "storage">>)

GetClasses(lookupFails, reply) ==
  /\ LET currentUser == IF lookupFails THEN NoUser ELSE svcSession.user
     IN  lastOp' =
           [ op |-> "getClasses", caller |-> currentUser, target |-> Absent,
             data |-> NoData, out |-> getClasses(currentUser, reply) ]
  /\ UNCHANGED <<profiles, history>>
  /\ DataCallFrame

\* ------------------------------------------------------- saveGenerationHistory
\* validTypes of saveGenerationHistory
validTypes == {"email", "diary", "record"}

\* a GenerationHistoryInsert; a missing field is Absent, an empty one ""
HistoryData(user_id, type, input, output) ==
  [ given |-> TRUE, user_id |-> user_id, type |-> type, input |-> input,
    output |-> output ]

\* replies of the insert: stored tells whether the row reached the table
InsertReplies ==
  { [kind |-> "ok", code |-> "", stored |-> TRUE],
    [kind |-> "error", code |-> "XX000", stored |-> FALSE],
    [kind |-> "throw", code |-> "", stored |-> FALSE],
    [kind |-> "throw", code |-> "", stored |-> TRUE] }

saveGenerationHistory_noTypeCheck(data, currentUser, reply) ==
  IF ~ data.given
     \/ ~ Truthy(data.user_id) \/ ~ Truthy(data.type)
     \/ ~ Truthy(data.input) \/ ~ Truthy(data.output)
  THEN Raise("DatabaseError", "validation", "", FALSE, <<"validate">>)
  ELSE IF currentUser = NoUser
  THEN Raise("AuthenticationError", "authentication", "", FALSE,
             <<"validate", "identity">>)
  ELSE IF currentUser # data.user_id
  THEN Raise("PermissionError", "authorization", "", FALSE,
             <<"validate", "identity", "authorize">>)
  ELSE [ Resolve({data}, <<"validate", "identity", "authorize", "storage">>)
           EXCEPT !.wrote = TRUE ]

saveGenerationHistory_noOwnerCheck(data, currentUser, reply) ==
  IF ~ data.given
     \/ ~ Truthy(data.user_id) \/ ~ Truthy(data.type)
     \/ ~ Truthy(data.input) \/ ~ Truthy(data.output)
     \/ data.type \notin validTypes
  THEN Raise("DatabaseError", "validation", "", FALSE, <<"validate">>)
  ELSE IF currentUser = NoUser
  THEN Raise("AuthenticationError", "authentication", "", FALSE,
             <<"validate", "identity">>)
  ELSE [ Resolve({data}, <<"validate", "identity", "authorize", "storage">>)
           EXCEPT !.wrote = TRUE ]

\* saveGenerationHistory(data): currentUser is what getCurrentUser()
\* resolved to, reply the reply of the insert
saveGenerationHistory(data, currentUser, reply) ==
  IF ~ data.given
  THEN Raise("DatabaseError", "validation", "", FALSE, <<"validate">>)
  ELSE IF \/ ~ Truthy(data.user_id) \/ ~ Truthy(data.type)
          \/ ~ Truthy(data.input) \/ ~ Truthy(data.output)
  THEN Raise("DatabaseError", "validation", "", FALSE, <<"validate">>)
  ELSE IF data.type \notin validTypes
  THEN Raise("DatabaseError", "validation", "", FALSE, <<"validate">>)
  ELSE IF currentUser = NoUser
  THEN Raise("AuthenticationError", "authentication", "", FALSE,
             <<"validate", "identity">>)
  ELSE IF currentUser # data.user_id
  THEN Raise("PermissionError", "authorization", "", FALSE,
             <<"validate", "identity", "authorize">>)
  ELSE
  LET steps == <<"validate", "identity", "authorize", "storage">>
  IN  IF reply.kind = "error"
      THEN [ Raise("DatabaseError", "storage", reply.code, TRUE, steps)
               EXCEPT !.wrote = TRUE ]
      ELSE IF reply.kind = "throw"
      THEN [ Raise("DatabaseError", "storage", "", FALSE, steps)
               EXCEPT !.wrote = TRUE ]
      ELSE [ Resolve({data}, steps) EXCEPT !.wrote = TRUE ]

\* the row the insert stores: the data with a server-generated id and the
\* two stamps; by is the caller the call was authenticated as
HistoryRow(data, id, by) ==
  [ id |-> id, user_id |-> data.user_id, type |-> data.type,
    input |-> data.input, output |-> data.output,
    created_at |-> "t1", updated_at |-> "t1", by |-> by ]

\* saveGenerationHistory(data) called from the current state
SaveGenerationHistory(data, lookupFails, reply) ==
  /\ Len(history) < MaxHistory
  /\ LET currentUser == IF lookupFails THEN NoUser ELSE svcSession.user
         out == saveGenerationHistory(data, currentUser, reply)
     IN  /\ lastOp' =
              [ op |-> "saveGenerationHistory", caller |-> currentUser,
                target |-> IF data.given THEN data.user_id ELSE Absent,
                data |-> data, out |-> out ]
         /\ history' =
              IF out.wrote /\ reply.stored
              THEN Append(history, HistoryRow(data, Len(history) + 1, currentUser))
              ELSE history
  /\ UNCHANGED profiles
  /\ DataCallFrame

\* ------------------------------------------------------- updateUserProfile
\* a key a UserProfileUpdate does not carry
Unset == "unset"

\* a UserProfileUpdate: Partial<Omit<User, 'id' | 'created_at'>>; a key
\* passed as undefined is Absent
ProfilePatch(email, name, assigned_class) ==
  [ given |-> TRUE, email |-> email, name |-> name,
    assigned_class |-> assigned_class ]

\* Object.keys(updates)
PatchKeys(updates) ==
  { k \in {"email", "name", "assigned_class"} : updates[k] # Unset }

\* the row after update({...updates, updated_at}): a key that is undefined
\* is dropped from the request body and leaves its column alone
ApplyPatch(row, updates) ==
  LET col(k) == IF updates[k] \in {Unset, Absent} THEN row[k] ELSE updates[k]
  IN  [ row EXCEPT !.email = col("email"), !.name = col("name"),
                   !.assigned_class = col("assigned_class"),
                   !.updated_at = "t1" ]

updateUserProfile_noSelfCheck(userId, updates, currentUser, row, reply) ==
  IF ~ Truthy(userId) \/ ~ updates.given \/ PatchKeys(updates) = {}
  THEN Raise("DatabaseError", "validation", "", FALSE, <<"validate">>)
  ELSE IF currentUser = NoUser
  THEN Raise("AuthenticationError", "authentication", "", FALSE,
             <<"validate", "identity">>)
  ELSE [ Resolve({ApplyPatch(row, updates)},
                 <<"validate", "identity", "authorize", "storage">>)
           EXCEPT !.wrote = TRUE ]

\* updateUserProfile(userId, updates): currentUser is what getCurrentUser()
\* resolved to, row the users row with id userId (NoProfile when there is
\* none), reply the reply of the update
updateUserProfile(userId, updates, currentUser, row, reply) ==
  IF ~ Truthy(userId)
  THEN Raise("DatabaseError", "validation", "", FALSE, <<"validate">>)
  ELSE IF ~ updates.given \/ PatchKeys(updates) = {}
  THEN Raise("DatabaseError", "validation", "", FALSE, <<"validate">>)
  ELSE IF currentUser = NoUser
  THEN Raise("AuthenticationError", "authentication", "", FALSE,
             <<"validate", "identity">>)
  ELSE IF currentUser # userId
  THEN Raise("PermissionError", "authorization", "", FALSE,
             <<"validate", "identity", "authorize">>)
  ELSE
  LET classGiven == updates.assigned_class # Unset /\ Truthy(updates.assigned_class)
      checked == IF classGiven
                 THEN <<"validate", "identity", "authorize", "validate">>
                 ELSE <<"validate", "identity", "authorize">>
      steps == Append(checked, "storage")
  IN  IF classGiven /\ updates.assigned_class \notin validClasses
      THEN Raise("DatabaseError", "validation", "", FALSE, checked)
      ELSE IF reply.kind = "error"
      THEN [ Raise("DatabaseError", "storage", reply.code, TRUE, steps)
               EXCEPT !.wrote = TRUE ]
      ELSE IF reply.kind = "throw"
      THEN [ Raise("DatabaseError", "storage", "", FALSE, steps)
               EXCEPT !.wrote = TRUE ]
      ELSE IF row = NoProfile
      THEN [ Raise("DatabaseError", "storage", "PGRST116", TRUE, steps)
               EXCEPT !.wrote = TRUE ]
      ELSE [ Resolve({ApplyPatch(row, updates)}, steps) EXCEPT !.wrote = TRUE ]

\* updateUserProfile(userId, updates) called from the current state
UpdateUserProfile(userId, updates, lookupFails, reply) ==
  /\ LET currentUser == IF lookupFails THEN NoUser ELSE svcSession.user
         row == IF userId \in usersTable THEN profiles[userId] ELSE NoProfile
         out == updateUserProfile(userId, updates, currentUser, row, reply)
     IN  /\ lastOp' =
              [ op |-> "updateUserProfile", caller |-> currentUser,
                target |-> userId, data |-> updates, out |-> out ]
         /\ profiles' =
              IF out.wrote /\ reply.stored /\ row # NoProfile
              THEN [profiles EXCEPT ![userId] = ApplyPatch(row, updates)]
              ELSE profiles
  /\ UNCHANGED history
  /\ DataCallFrame

\* ------------------------------------------------------- browser visits
\* where the browser ends up after the gateway answered a request for p
Follow(pathname, response) ==
  IF response.kind = "redirect"
  THEN [path |-> response.url, redirect |-> response.redirect]
  ELSE [path |-> pathname, redirect |-> <<>>]

\* a caller without token cookies requests p: middleware() runs on it; the
\* page load starts from an idle login form
AnonymousVisit(pathname, reply, now) ==
  /\ docCookies = {}
  /\ signInPc.pc = "idle"
  /\ signInPc' = [signInPc EXCEPT !.redirectTo = <<>>]
  /\ LET final == IF isBypassed(pathname)
                  THEN NextResponseNext
                  ELSE middlewareDecide(pathname,
                         getSessionResolved(reply, NextResponseNext, now))
     IN  /\ location' = Follow(pathname, final)
         /\ intended' = IF final.kind = "redirect" /\ final.url = <<"/", "login">>
                        THEN pathname ELSE <<>>
  /\ nav' = <<>>
  /\ lastResult' = Stale
  /\ UNCHANGED <<user, session, loading, initPc, signUpPc, signOutPc,
                 docCookies, svcSession>>
  /\ UNCHANGED <<gatewayVars, dataVars>>

\* a caller without token cookies opens /login?redirect=q itself (q = <<>>:
\* no parameter); /login is Public, the gateway lets it through
VisitLoginWith(q) ==
  /\ docCookies = {}
  /\ signInPc.pc = "idle"
  /\ signInPc' = [signInPc EXCEPT !.redirectTo = <<>>]
  /\ location' = [path |-> <<"/", "login">>, redirect |-> q]
  /\ intended' = <<>>
  /\ nav' = <<>>
  /\ lastResult' = Stale
  /\ UNCHANGED <<user, session, loading, initPc, signUpPc, signOutPc,
                 docCookies, svcSession>>
  /\ UNCHANGED <<gatewayVars, dataVars>>

\* ------------------------------------------------------- specifications
vars == <<gatewayVars, ctxVars, navVars, dataVars>>

NowMsChoices == { n * 1000 : n \in NowChoices }

\* the gateway alone: requests of one caller, one at a time
GatewayInit ==
  /\ GatewayIdle
  /\ CtxInit /\ svcSession = NullSupabaseSession
  /\ NavInit(<<"/">>)
  /\ DataInit /\ usersTable = {}

GatewaySpec == GatewayInit /\ [][GatewayNext]_vars

\* the Session Context with its operations interleaved, on the login page
ContextInit ==
  /\ GatewayIdle
  /\ CtxInit
  /\ NavInit(<<"/", "login">>)
  /\ DataInit /\ usersTable = {}

ContextNext ==
  \/ \E t \in BOOLEAN, ms \in NowMsChoices : InitializeAuthResolves(t, ms)
  \/ \E s \in SupabaseSessions \cup {NullSupabaseSession}, ms \in NowMsChoices :
       AuthStateChange(s, ms)
  \/ LoginFormSubmit
  \/ \E reply \in SignInReplies, ms \in NowMsChoices : SignInReturns(reply, ms)
  \/ \E pw \in Passwords, cpw \in Passwords : SignUpSubmit(pw, cpw)
  \/ \E reply \in SignUpReplies, ms \in NowMsChoices : SignUpReturns(reply, ms)
  \/ SignOutStart
  \/ \E reply \in SignOutReplies : SignOutReturns(reply)
  \/ \E reply \in SignOutReplies : ResetPassword(reply)
  \/ \E pw \in Passwords, cpw \in Passwords, reply \in SignOutReplies :
       ChangePassword(pw, cpw, reply)
  \/ \E reply \in RefreshReplies, ms \in NowMsChoices : RefreshSession(reply, ms)
  \/ ClearAuth
  \/ VisitLoginWith(<<>>)

ContextSpec == ContextInit /\ [][ContextNext]_vars

\* sign-in followed by data-layer reads, over every content of the users table
SignInInit ==
  /\ GatewayIdle
  /\ CtxInit
  /\ NavInit(<<"/", "login">>)
  /\ DataInit

SignInNext ==
  \/ \E t \in BOOLEAN, ms \in NowMsChoices : InitializeAuthResolves(t, ms)
  \/ \E s \in SupabaseSessions \cup {NullSupabaseSession}, ms \in NowMsChoices :
       AuthStateChange(s, ms)
  \/ LoginFormSubmit
  \/ \E reply \in SignInReplies, ms \in NowMsChoices : SignInReturns(reply, ms)
  \/ \E id \in Accounts \cup {""}, f \in BOOLEAN :
       \E q \in UsersQueryReplies(id) : GetUserProfile(id, f, q)
  \/ VisitLoginWith(<<>>)

SignInSpec == SignInInit /\ [][SignInNext]_vars

\* the login flow: anonymous visits through the gateway, then the login form
LoginInit ==
  /\ GatewayIdle
  /\ CtxInit /\ svcSession = NullSupabaseSession
  /\ NavInit(<<"/">>)
  /\ DataInit /\ usersTable = {}

LoginNext ==
  \/ \E p \in Paths, now \in NowChoices :
       \E reply \in GetSessionReplies(EmptyJar) : AnonymousVisit(p, reply, now)
  \/ \E q \in Paths \cup {<<>>} : VisitLoginWith(q)
  \/ \E t \in BOOLEAN, ms \in NowMsChoices : InitializeAuthResolves(t, ms)
  \/ LoginFormSubmit
  \/ \E reply \in SignInReplies, ms \in NowMsChoices : SignInReturns(reply, ms)

LoginSpec == LoginInit /\ [][LoginNext]_vars

\* reads of the children and classes tables by every kind of caller
RowClassChoices == {Absent, "", "koala", "bear"}
ClassIdChoices == {Absent, "", "koala", "bear", "giraffe"}

ChildrenInit ==
  /\ GatewayIdle
  /\ CtxInit
  /\ NavInit(<<"/", "dashboard">>)
  /\ usersTable \in SUBSET Accounts
  /\ lastProfile = NoProfile
  /\ profiles \in { [a \in Accounts |-> UserRow(a, f[a])] :
                       f \in [Accounts -> RowClassChoices] }
  /\ history = <<>>
  /\ lastOp = NoOp

ChildrenNext ==
  \/ \E classId \in ClassIdChoices, lf \in BOOLEAN, inf \in BOOLEAN,
        cr \in StoreReplies :
       \E ur \in UsersQueryReplies(svcSession.user) :
         GetChildren(classId, lf, inf, ur, cr)
  \/ \E lf \in BOOLEAN, reply \in StoreReplies : GetClasses(lf, reply)

ChildrenSpec == ChildrenInit /\ [][ChildrenNext]_vars

\* appends to generation_history by callers that come and go
ValidHistoryData == HistoryData("u1", "email", "in", "out")

HistoryInputs ==
  { NoData, ValidHistoryData,
    HistoryData("u2", "diary", "in", "out"),
    HistoryData("", "email", "in", "out"),
    HistoryData("u1", Absent, "in", "out"),
    HistoryData("u1", "invalid-type", "in", "out"),
    HistoryData("u1", "email", "", "out"),
    HistoryData("u1", "email", "in", Absent),
    HistoryData("u2", "invalid-type", Absent, "") }

HistoryInit ==
  /\ GatewayIdle
  /\ CtxInit
  /\ NavInit(<<"/", "dashboard">>)
  /\ DataInit /\ usersTable = Accounts

HistoryNext ==
  \/ \E data \in HistoryInputs, lf \in BOOLEAN, reply \in InsertReplies :
       SaveGenerationHistory(data, lf, reply)
  \/ \E s \in SupabaseSessions \cup {NullSupabaseSession}, ms \in NowMsChoices :
       AuthStateChange(s, ms)

HistorySpec == HistoryInit /\ [][HistoryNext]_vars

\* profile edits by one caller
UserIdChoices == {"", "u1", "u2"}

PatchChoices ==
  { NoData, ProfilePatch(Unset, Unset, Unset),
    ProfilePatch("mail2", Unset, Unset),
    ProfilePatch(Unset, "name2", Unset),
    ProfilePatch(Unset, "name2", "giraffe") }
  \cup { ProfilePatch(Unset, Unset, c) : c \in {Absent, "", "koala", "bear", "lion"} }

ProfileInit ==
  /\ GatewayIdle
  /\ CtxInit
  /\ NavInit(<<"/", "dashboard">>)
  /\ usersTable \in {Accounts, {"u2"}}
  /\ lastProfile = NoProfile
  /\ StoreIdle

ProfileNext ==
  \E userId \in UserIdChoices, updates \in PatchChoices, lf \in BOOLEAN,
     reply \in InsertReplies :
    UpdateUserProfile(userId, updates, lf, reply)

ProfileSpec == ProfileInit /\ [][ProfileNext]_vars

\* the Session Context under the initial pass, pushed notifications,
\* refreshSession calls and sign-ins, whose success is notified as well
NotifyInit ==
  /\ GatewayIdle
  /\ CtxInit
  /\ NavInit(<<"/", "login">>)
  /\ DataInit /\ usersTable = Accounts

NotifyNext ==
  \/ \E t \in BOOLEAN, ms \in NowMsChoices : InitializeAuthResolves(t, ms)
  \/ \E s \in SupabaseSessions \cup {NullSupabaseSession}, ms \in NowMsChoices :
       AuthStateChange(s, ms)
  \/ \E reply \in RefreshReplies, ms \in NowMsChoices : RefreshSession(reply, ms)
  \/ LoginFormSubmit
  \/ \E reply \in SignInReplies, ms \in NowMsChoices : SignInReturns(reply, ms)

NotifySpec == NotifyInit /\ [][NotifyNext]_vars

\* two requests of one signed-in caller in flight at once, the stored
\* session near its expiry
RaceRequests == {1, 2}

RacePaths == { <<"/", "dashboard">>, <<"/">> }

RaceInit ==
  /\ \E e \in {BaseNow - 1, BaseNow + expirationBuffer} :
       jar = [n \in CookieNames |-> [gen |-> 0, user |-> "u1", expires_at |-> e]]
  /\ localStore = jar
  /\ svcGen = 0
  /\ req = [r \in RaceRequests |-> IdleRequest]
  /\ CtxInit /\ svcSession = NullSupabaseSession
  /\ NavInit(<<"/">>)
  /\ DataInit /\ usersTable = {}

RaceNext ==
  \/ \E r \in DOMAIN req, p \in RacePaths : StartRequest(r, p)
  \/ \E r \in DOMAIN req, now \in NowChoices :
       \E reply \in GetSessionReplies(req[r].cookies) :
         GetSessionReturns(r, reply, now)
  \/ \E r \in DOMAIN req : RefreshSucceeds(r, "u1")
  \/ \E r \in DOMAIN req :
       \E reply \in { [error |-> e, session |-> NullSession] : e \in BOOLEAN } :
         RefreshFails(r, reply)
  \/ \E r \in DOMAIN req : Deliver(r)

RaceSpec == RaceInit /\ [][RaceNext]_vars

\* ------------------------------------------------------- gateway claims
\* the claims name the route prefixes themselves
StartsWithAny(pathname, prefixes) ==
  \E route \in prefixes : startsWith(pathname, route)

ProtectedPrefixes ==
  { <<"/", "dashboard">>, <<"/", "email">>, <<"/", "diary">>, <<"/", "records">> }

AuthTransitionPrefixes == { <<"/", "login">>, <<"/", "register">> }

PublicPath(pathname) ==
  \/ pathname = <<"/">>
  \/ StartsWithAny(pathname,
       { <<"/", "login">>, <<"/", "register">>, <<"/", "auth">> })

Done(r) == req[r].pc = "done"

IsLoginRedirect(response) ==
  response.kind = "redirect" /\ response.url = <<"/", "login">>

Anonymous(r) == req[r].cookies = EmptyJar

InvalidOutcomes == {"ServiceError", "RefreshFailed", "CorruptSession", "Exception"}

\* the token cookies the caller holds once the response is applied to the
\* cookies the request came with
CookiesAfter(r) ==
  [n \in CookieNames |->
     IF req[r].final.cookies[n] = Untouched
     THEN req[r].cookies[n] ELSE req[r].final.cookies[n]]

\* C1: on a Protected path, validation that ends in a service error, a failed
\* refresh, a session without a user, or an exception, never yields a
\* pass-through: the response is a redirect to the login route.
C1_FailsClosed ==
  \A r \in DOMAIN req :
    ( /\ Done(r)
      /\ StartsWithAny(req[r].pathname, ProtectedPrefixes)
      /\ \/ req[r].outcome \in InvalidOutcomes
         \/ req[r].outcome = "Valid" /\ req[r].session.user = NoUser )
    => IsLoginRedirect(req[r].final)

\* C2 (as stated): every Protected path requested anonymously is answered by a
\* redirect to /login whose redirect parameter is the path.
C2_AnonymousProtectedRedirect_Original ==
  \A r \in DOMAIN req :
    ( /\ Done(r)
      /\ StartsWithAny(req[r].pathname, ProtectedPrefixes)
      /\ Anonymous(r) )
    => /\ IsLoginRedirect(req[r].final)
       /\ req[r].final.redirect =
            IF req[r].pathname = <<"/">> THEN <<>> ELSE req[r].pathname

\* C2 (amended): every Protected path that is not bypassed (no "." in it, not
\* under /_next/ or /api/) and is requested anonymously is answered by a
\* redirect to /login whose redirect parameter is the path.
C2_AnonymousProtectedRedirect ==
  \A r \in DOMAIN req :
    ( /\ Done(r)
      /\ StartsWithAny(req[r].pathname, ProtectedPrefixes)
      /\ ~ includes(req[r].pathname, ".")
      /\ Anonymous(r) )
    => /\ IsLoginRedirect(req[r].final)
       /\ req[r].final.redirect =
            IF req[r].pathname = <<"/">> THEN <<>> ELSE req[r].pathname

C2_Witness ==
  \E r \in DOMAIN req :
    /\ Done(r)
    /\ req[r].pathname = <<"/", "diary", "/">>
    /\ Anonymous(r)
    /\ req[r].outcome = "NoSession"
    /\ IsLoginRedirect(req[r].final)
    /\ req[r].final.redirect = <<"/", "diary", "/">>

\* C3: whenever getSession() refreshed the session successfully, the response
\* middleware() returns carries the refreshed tokens, whatever the route.
C3_RefreshedTokensCarried ==
  \A r \in DOMAIN req :
    (Done(r) /\ req[r].refreshed)
    => \A n \in CookieNames : req[r].final.cookies[n] = req[r].session

\* C5: every login redirect issued for a Protected path because the session
\* was invalid deletes both token cookies and carries the original path.
C5_InvalidRedirectCleansAndCarriesPath ==
  \A r \in DOMAIN req :
    ( /\ Done(r)
      /\ StartsWithAny(req[r].pathname, ProtectedPrefixes)
      /\ req[r].outcome \in InvalidOutcomes
      /\ IsLoginRedirect(req[r].final) )
    => /\ \A n \in CookieNames : req[r].final.cookies[n] = NullSession
       /\ req[r].final.redirect = req[r].pathname

C7_AuthenticatedLeavesAuthPages ==
  \A r \in DOMAIN req :
    ( /\ Done(r)
      /\ StartsWithAny(req[r].pathname, AuthTransitionPrefixes)
      /\ req[r].outcome = "Valid" )
    => /\ req[r].final.kind = "redirect"
       /\ req[r].final.url = <<"/", "dashboard">>
       /\ req[r].final.redirect = <<>>

C7_Witness ==
  \E r \in DOMAIN req :
    /\ Done(r)
    /\ req[r].pathname = <<"/", "register", "/">>
    /\ req[r].outcome = "Valid"
    /\ req[r].session.user \in GatewayUsers
    /\ req[r].final.url = <<"/", "dashboard">>

\* ------------------------------------------------------- context claims
Returned(op) == lastResult.fresh /\ lastResult.op = op

TokenCookies == {"sb-access-token", "sb-refresh-token"}

\* C4: in the state signOut() returns in, whether the remote call succeeded,
\* returned an error or threw, user and session are null and neither token
\* cookie is left.
C4_SignOutClearsLocalState ==
  Returned("signOut")
  => /\ user = NullAuthUser
     /\ session = NullAuthSession
     /\ docCookies \cap TokenCookies = {}

\* C8: in the state signIn() returned to the login form in, the navigation
\* target is the redirect parameter the page was opened with, /dashboard when
\* there was none, and no navigation at all when signIn failed; so a login
\* that the gateway asked for on behalf of path p navigates to p.
C8_PostLoginReturn ==
  Returned("signIn")
  => /\ (lastResult.success /\ signInPc.redirectTo # <<>>)
          => nav = signInPc.redirectTo
     /\ (lastResult.success /\ signInPc.redirectTo = <<>>)
          => nav = <<"/", "dashboard">>
     /\ ~ lastResult.success => nav = <<>>
     /\ (lastResult.success /\ intended # <<>>)
          => /\ nav = intended
             /\ StartsWithAny(intended, ProtectedPrefixes)

C8_Witness ==
  /\ Returned("signIn")
  /\ lastResult.success
  /\ intended = <<"/", "records", "x">>
  /\ signInPc.redirectTo = <<"/", "records", "x">>
  /\ nav = <<"/", "records", "x">>

ClosedCodes ==
  { "invalid_credentials", "user_exists", "weak_password",
    "email_not_confirmed", "unknown_error" }

\* C10: every failure of the Identity Service that signIn, signUp, signOut,
\* resetPassword or changePassword returns carries a code of the closed set.
\* (password_mismatch reports a local validation, not a failure of the service)
C10_ErrorCodesClosed ==
  ( /\ lastResult.fresh
    /\ ~ lastResult.success
    /\ lastResult.code # "password_mismatch" )
  => lastResult.code \in ClosedCodes

\* C11: signUp and changePassword compare the password with its confirmation
\* before anything else: when they differ the call returns the failure
\* password_mismatch scoped to confirm_password without having called the
\* Identity Service (no signUp call is left pending), and the Identity
\* Service is called exactly when they are equal.
C11_ConfirmationCheckedLocally ==
  (lastResult.fresh /\ lastResult.op \in {"signUp", "changePassword"})
  => /\ lastResult.mismatch
          => /\ ~ lastResult.success
             /\ lastResult.code = "password_mismatch"
             /\ lastResult.field = "confirm_password"
             /\ ~ lastResult.contacted
             /\ lastResult.op = "signUp" => signUpPc = "idle"
     /\ lastResult.contacted <=> ~ lastResult.mismatch

C11_Witness ==
  /\ Returned("changePassword")
  /\ lastResult.mismatch
  /\ lastResult.field = "confirm_password"
  /\ ~ lastResult.contacted

\* ------------------------------------------------------- data-layer claims
Called(op) == lastOp.op = op

\* the class of the caller's users row, Absent when there is no such row
ClassOf(caller) ==
  IF caller \in usersTable THEN profiles[caller].assigned_class ELSE Absent

BadHistoryData(data) ==
  \/ ~ data.given
  \/ data.user_id \in {Absent, ""} \/ data.type \in {Absent, ""}
  \/ data.input \in {Absent, ""} \/ data.output \in {Absent, ""}
  \/ data.type \notin {"email", "diary", "record"}

\* C13: a saveGenerationHistory call with a bad record ends in the
\* validation failure before the caller is looked up and before any write,
\* whoever the caller is, and the table is the same afterwards
C13_BadHistoryRejectedBeforeWrite ==
  [][ (Called("saveGenerationHistory")' /\ BadHistoryData(lastOp'.data))
        => /\ lastOp'.out.kind = "DatabaseError"
           /\ lastOp'.out.stage = "validation"
           /\ lastOp'.out.steps = <<"validate">>
           /\ ~ lastOp'.out.wrote
           /\ history' = history ]_vars

C13_Witness ==
  /\ Called("saveGenerationHistory")
  /\ lastOp.caller = "u1"
  /\ lastOp.data.given /\ lastOp.data.user_id = "u1"
  /\ lastOp.data.type = "invalid-type"
  /\ lastOp.out.stage = "validation"
  /\ Len(history) = 1

\* C14: every stored generation record carries the id of the caller it was
\* saved by; a call whose user_id is not the authenticated caller's id ends
\* in PermissionError and stores nothing; stored records never change or go
C14_HistoryOwnedAndAppendOnly ==
  [][ /\ \A i \in 1..Len(history') :
            history'[i].by # NoUser /\ history'[i].user_id = history'[i].by
      /\ ( /\ Called("saveGenerationHistory")'
           /\ ~ BadHistoryData(lastOp'.data)
           /\ lastOp'.caller # NoUser
           /\ lastOp'.data.user_id # lastOp'.caller )
          => /\ lastOp'.out.kind = "PermissionError"
             /\ ~ lastOp'.out.wrote
             /\ history' = history
      /\ Len(history') >= Len(history)
      /\ \A i \in 1..Len(history) : history'[i] = history[i] ]_vars

C14_Witness ==
  /\ Called("saveGenerationHistory")
  /\ lastOp.caller = "u2"
  /\ lastOp.data.given /\ lastOp.data.user_id = "u1"
  /\ lastOp.out.kind = "PermissionError"
  /\ Len(history) = 1 /\ history[1].by = "u1"

\* an updateUserProfile call that got past input validation with a known caller
EditAttempt ==
  /\ Called("updateUserProfile")
  /\ lastOp.target # "" /\ lastOp.data.given
  /\ \E k \in {"email", "name", "assigned_class"} : lastOp.data[k] # "unset"
  /\ lastOp.caller # NoUser

\* C15: updateUserProfile ends in PermissionError without writing exactly
\* when the caller's id differs from the id it was called with, a successful
\* call has written the caller's own row, and no call changes a row other
\* than the caller's
C15_ProfileSelfEditOnly ==
  [][ /\ Called("updateUserProfile")' =>
            \A a \in Accounts : a # lastOp'.caller => profiles'[a] = profiles[a]
      /\ EditAttempt' =>
            /\ (lastOp'.target # lastOp'.caller)
                  <=> (lastOp'.out.kind = "PermissionError")
            /\ lastOp'.out.kind = "PermissionError"
                  => ~ lastOp'.out.wrote /\ profiles' = profiles
            /\ lastOp'.out.kind = "ok"
                  => /\ lastOp'.out.wrote
                     /\ lastOp'.out.value = {profiles'[lastOp'.caller]}
                     /\ profiles'[lastOp'.caller].updated_at = "t1" ]_vars

C15_Witness ==
  /\ EditAttempt
  /\ lastOp.caller = "u1" /\ lastOp.target = "u2"
  /\ lastOp.out.kind = "PermissionError"
  /\ profiles["u1"].name = "name2"

\* C16: the assigned_class of every user row is absent or one of koala,
\* bear and giraffe, and a call that asks for another value is refused at
\* validation without a write
C16_AssignedClassInFixedSet ==
  /\ \A a \in usersTable :
        profiles[a].assigned_class \in {"absent", "koala", "bear", "giraffe"}
  /\ ( /\ EditAttempt
       /\ lastOp.target = lastOp.caller
       /\ lastOp.data.assigned_class \notin
            {"unset", "absent", "koala", "bear", "giraffe"} )
      => lastOp.out.stage = "validation" /\ ~ lastOp.out.wrote

\* C17: no updateUserProfile call changes the id, the created_at or the
\* email of a user row
C17_ImmutableProfileFields ==
  [][ \A a \in Accounts :
        /\ profiles'[a].id = profiles[a].id
        /\ profiles'[a].created_at = profiles[a].created_at
        /\ profiles'[a].email = profiles[a].email ]_vars

\* C18: a data-layer failure tells its cause by its kind alone: a
\* validation failure has a kind of its own, AuthenticationError means no
\* verified caller, and a storage failure is a DatabaseError that carries
\* the store's original error
C18_ErrorKindsDistinct ==
  /\ lastOp.out.stage = "validation"
        => lastOp.out.kind \notin
             {"DatabaseError", "AuthenticationError", "PermissionError"}
  /\ lastOp.out.kind = "AuthenticationError" => lastOp.caller = NoUser
  /\ lastOp.out.kind = "PermissionError" => lastOp.out.stage = "authorization"
  /\ lastOp.out.stage = "storage"
        => lastOp.out.kind = "DatabaseError" /\ lastOp.out.cause

\* C19: the steps of a data-layer call come in the order validation,
\* caller lookup, authorisation, storage: nothing is validated after the
\* caller lookup and the store is not called before the authorisation check
C19_StepOrder ==
  \A i, j \in 1..Len(lastOp.out.steps) :
     i < j =>
       /\ ~ (lastOp.out.steps[i] = "identity" /\ lastOp.out.steps[j] = "validate")
       /\ ~ (lastOp.out.steps[i] = "storage" /\ lastOp.out.steps[j] = "authorize")

\* ------------------------------------------------------- route claims
\* a request the gateway classified: started and not bypassed
Classified(r) == req[r].pc # "idle" /\ ~ isBypassed(req[r].pathname)

\* the tables match as the claim says: the root by equality, the rest by prefix
MatchesAsTabled(pathname) ==
  /\ isProtectedRoute(pathname) <=> StartsWithAny(pathname, ProtectedPrefixes)
  /\ isPublicRoute(pathname) <=> PublicPath(pathname)
  /\ isAuthRoute(pathname) <=> StartsWithAny(pathname, AuthTransitionPrefixes)
  /\ isAuthRoute(pathname) => isPublicRoute(pathname)

\* C20 as stated: every path that is not bypassed is exactly one of
\* Protected and Public, every AuthTransition path is Public, the root
\* matches by equality and every other entry by prefix
C20_RoutePartition_Original ==
  \A r \in DOMAIN req :
     Classified(r) =>
       /\ isProtectedRoute(req[r].pathname) # isPublicRoute(req[r].pathname)
       /\ MatchesAsTabled(req[r].pathname)

\* C20 amended: no path that is not bypassed is both Protected and Public,
\* a path that matches no entry is neither and is passed on without a
\* redirect, every AuthTransition path is Public, the root matches by
\* equality and every other entry by prefix
C20_RoutePartition ==
  \A r \in DOMAIN req :
     Classified(r) =>
       /\ ~ (isProtectedRoute(req[r].pathname) /\ isPublicRoute(req[r].pathname))
       /\ MatchesAsTabled(req[r].pathname)
       /\ ( /\ Done(r)
            /\ ~ isProtectedRoute(req[r].pathname)
            /\ ~ isPublicRoute(req[r].pathname) )
           => req[r].final.kind = "next"

C20_Witness ==
  \E r \in DOMAIN req :
     /\ Done(r) /\ Classified(r)
     /\ req[r].pathname = <<"/", "_next">>
     /\ ~ isProtectedRoute(req[r].pathname) /\ ~ isPublicRoute(req[r].pathname)
     /\ req[r].final.kind = "next"

\* ------------------------------------------------------- validator claims
\* the session a request's getSession() call resolved to: the one in the
\* cookies the request came with
Resolved(r) == req[r].cookies["sb-access-token"]

\* fewer than 300 seconds are left until expires_at, or it has passed
InRefreshWindow(s, now) == s.expires_at # 0 /\ s.expires_at < now + 300

\* getSession() of request r called refreshSession
RefreshAttempted(r) ==
  \/ req[r].pc = "refresh"
  \/ req[r].refreshed
  \/ req[r].outcome = "RefreshFailed"

\* C21: getSession() calls refreshSession exactly when the resolved session
\* expires in fewer than 300 seconds or has expired; outside that window the
\* session is returned without a refresh; a failed refresh returns no
\* session and asks for cleanup; a successful one returns the refreshed
\* session, whose tokens are on the response of getSession()
C21_RefreshWindow ==
  \A r \in DOMAIN req :
     /\ RefreshAttempted(r) => InRefreshWindow(Resolved(r), req[r].now)
     /\ (req[r].pc = "done" /\ req[r].outcome \in {"Valid", "CorruptSession"}
           /\ ~ req[r].refreshed)
          => ~ InRefreshWindow(Resolved(r), req[r].now)
     /\ (req[r].pc = "done" /\ req[r].outcome = "Valid" /\ ~ req[r].refreshed)
          => req[r].session = Resolved(r)
     /\ req[r].outcome = "RefreshFailed"
          => req[r].session = NullSession /\ req[r].needsCleanup
     /\ req[r].refreshed
          => /\ req[r].session # Resolved(r)
             /\ req[r].session.gen = Resolved(r).gen + 1
             /\ req[r].session.expires_at > req[r].now + 300
             /\ \A n \in CookieNames : req[r].response.cookies[n] = req[r].session

C21_Witness ==
  \E r \in DOMAIN req :
     /\ req[r].pc = "done" /\ req[r].outcome = "Valid" /\ req[r].refreshed
     /\ Resolved(r).expires_at = req[r].now + 299
     /\ req[r].session.user = "u1"

\* C22: a session getSession() returns carries a user, also when it was
\* just refreshed, and a resolved or refreshed session without a user is
\* answered with no session and a request for cleanup
C22_ValidSessionHasUser ==
  \A r \in DOMAIN req :
     req[r].pc = "done" =>
       /\ req[r].session # NullSession => req[r].session.user # NoUser
       /\ (req[r].outcome = "CorruptSession")
            => req[r].session = NullSession /\ req[r].needsCleanup

\* C23: a session that getSession() returns without having called
\* refreshSession has an expires_at, and it is not in the past
C23_NoExpiredSessionWithoutRefresh ==
  \A r \in DOMAIN req :
     (req[r].pc = "done" /\ req[r].session # NullSession /\ ~ req[r].refreshed)
       => /\ req[r].session.expires_at # 0
          /\ req[r].session.expires_at >= req[r].now

\* the refresh of request b was rejected because another request had
\* already rotated the token b came with, and the Token Store holds the
\* tokens of that other, successful refresh
LostRefreshRace(b) ==
  /\ req[b].pc = "done" /\ req[b].outcome = "RefreshFailed"
  /\ req[b].cookies["sb-refresh-token"].gen < svcGen
  /\ jar["sb-refresh-token"].gen = svcGen
  /\ jar["sb-access-token"].user # NoUser

\* C24: when the response of a request that lost the refresh race reaches
\* the caller, the tokens stored by the successful refresh stay in the
\* Token Store
C24_RefreshRaceKeepsTokens ==
  [][ \A b \in DOMAIN req :
        (LostRefreshRace(b) /\ req'[b].pc = "idle") => jar' = jar ]_vars

\* request r is answered after a validation that asked for cleanup
CleanupAnswer(r) ==
  req[r].pc = "done" /\ req[r].needsCleanup

\* request r came without tokens and its validation was not cut short by a
\* failure of the Identity Service or an exception
ValidatedWithoutTokens(r) ==
  /\ req[r].pc = "done" /\ req[r].cookies = EmptyJar
  /\ req[r].outcome \notin {"ServiceError", "Exception", "Bypass"}

C26_LoadingUntilInitialised ==
  initPc = "pending" => loading

\* C30: user is null exactly when session is null, and a user that is set
\* is the user of the session
C30_UserMatchesSession ==
  /\ (user = NullAuthUser) <=> (session = NullAuthSession)
  /\ user = session.user

C30_Witness ==
  /\ initPc = "pending" /\ signOutPc = "awaiting" /\ signInPc.pc = "awaiting"
  /\ user = [id |-> "u2"] /\ session.user = [id |-> "u2"]
  /\ session.expires_at = (BaseNow + 2 * expirationBuffer) * 1000

\* user and session are those of the session the client holds, which is the
\* payload of the notification it received last: both null when it holds none
MatchesLatest ==
  IF svcSession = NullSupabaseSession
  THEN user = NullAuthUser /\ session = NullAuthSession
  ELSE /\ user = [id |-> svcSession.user]
       /\ session.user = user
       /\ svcSession.expires_at # 0
            => session.expires_at = svcSession.expires_at * 1000

C28_NoDataCallWhileLoading ==
  [][ (loading /\ lastOp' # lastOp)
        => \A i \in 1..Len(lastOp'.out.steps) :
              lastOp'.out.steps[i] \notin {"authorize", "storage"} ]_vars

\* ------------------------------------------------------- Token Store claims
\* C29: localStorage and the cookie hold the same value for each token,
\* and a token neither of them holds is not found by getItem
C29_ChannelsMirrored ==
  \A n \in CookieNames :
     /\ localStore[n] = jar[n]
     /\ jar[n] = NullSession => getItem(n) = NullSession

====
